---- MODULE Spec2Model ----
(***************************************************************************)
(* Model of the gopt Option[T] library (kxrxh/gopt).                       *)
(*                                                                         *)
(* An Option is the struct {value T; ok bool}.  The model instantiates     *)
(* the generic code at T = Option[int], the smallest type of the library   *)
(* itself whose JSON encoding can be the literal null (a nested None), so  *)
(* the shared receiver o has Go type Option[Option[int]].  A type          *)
(* parameter T is modelled by an explicit argument carrying T's zero value *)
(* and, for the JSON hooks, by T's encoding/json codec.                    *)
(*                                                                         *)
(* Byte slices are sequences of one-character strings.                     *)
(***************************************************************************)
EXTENDS Integers, Sequences, FiniteSets, TLC

(***************************************************************************)
(* Bounds                                                                  *)
(***************************************************************************)
MaxInt == 1          \* contained ints range over 0..MaxInt
MaxLen == 3          \* decode inputs: every byte string of length <= MaxLen
MaxCells == 3        \* heap cells that ToPointer may allocate
NumThreads == 2      \* goroutines that share one Option

IntVals == 0 .. MaxInt
ZeroInt == 0

(***************************************************************************)
(* The Option struct and its constructors                                  *)
(***************************************************************************)
Option(v, k) == [value |-> v, ok |-> k]

Some(v) == Option(v, TRUE)

\* None[T](): Option[T]{ok: false}; the unset field value is T's zero value.
None(zero) == Option(zero, FALSE)

\* T = Option[int]: its zero value and its values.
ZeroT == None(ZeroInt)
TVals == {ZeroT} \cup {Some(k) : k \in IntVals}

\* A *T is NilPtr or the address of a heap cell; mem maps the allocated
\* addresses to the T they hold.
NilPtr == 0
Addrs == 1 .. MaxCells

FromPtr(p, mem, zero) ==
    IF p = NilPtr THEN Option(zero, FALSE) ELSE Option(mem[p], TRUE)

\* Mutant: the value passed in is kept in a None.
FromTuple_KeepsValue(v, ok, zero) == Option(v, ok)

FromTuple(v, ok, zero) ==
    IF ~ok THEN Option(zero, FALSE) ELSE Option(v, TRUE)

\* err is "nil" or an error value.
Try(v, err, zero) ==
    IF err # "nil" THEN Option(zero, FALSE) ELSE Option(v, TRUE)

\* Mutant: a zero value counts as absent.
Cond_ValueDecides(ok, v, zero) ==
    IF ~ok \/ v = zero THEN Option(zero, FALSE) ELSE Option(v, TRUE)

Cond(ok, v, zero) ==
    IF ~ok THEN Option(zero, FALSE) ELSE Option(v, TRUE)

(***************************************************************************)
(* Inspection and unwrap                                                   *)
(***************************************************************************)
IsSome(o) == o.ok

IsNone(o) == ~o.ok

Get(o) == <<o.value, o.ok>>

\* A call that may panic: either returns ret or panics with value msg.
Returned(v) == [panicked |-> FALSE, ret |-> v]
Panicked(m) == [panicked |-> TRUE, msg |-> m]

Unwrap(o) ==
    IF ~o.ok THEN Panicked("gopt: Unwrap called on None") ELSE Returned(o.value)

\* Mutant: the caller's message is dropped.
Expect_FixedMessage(o, msg) ==
    IF ~o.ok THEN Panicked("gopt: Unwrap called on None") ELSE Returned(o.value)

Expect(o, msg) ==
    IF ~o.ok THEN Panicked("gopt: " \o msg) ELSE Returned(o.value)

UnwrapOr(o, defaultVal) == IF o.ok THEN o.value ELSE defaultVal

(***************************************************************************)
(* Callbacks.  A func() R is modelled by the value it returns, a func(T) R *)
(* by a function with domain T.  An operation that takes callbacks returns *)
(* its result together with the log of the callback invocations it made,   *)
(* each entry naming the parameter and the argument.                       *)
(***************************************************************************)
Call0(name) == [fn |-> name]
Call1(name, a) == [fn |-> name, arg |-> a]

UnwrapOrElse(o, fn) ==
    IF o.ok THEN [ret |-> o.value, log |-> <<>>]
    ELSE [ret |-> fn, log |-> <<Call0("fn")>>]

Or(o, other) == IF o.ok THEN o ELSE other

\* Mutant: the fallback is computed before the check.
OrElse_Eager(o, fn) ==
    IF o.ok THEN [ret |-> o, log |-> <<Call0("fn")>>]
    ELSE [ret |-> fn, log |-> <<Call0("fn")>>]

OrElse(o, fn) ==
    IF o.ok THEN [ret |-> o, log |-> <<>>]
    ELSE [ret |-> fn, log |-> <<Call0("fn")>>]

\* pred(o.value) is evaluated only when o.ok (short-circuit ||).
\* Mutant: the predicate is evaluated before the presence check.
Filter_NoShortCircuit(o, pred, zero) ==
    IF ~pred[o.value] \/ ~o.ok
    THEN [ret |-> None(zero), log |-> <<Call1("pred", o.value)>>]
    ELSE [ret |-> o, log |-> <<Call1("pred", o.value)>>]

Filter(o, pred, zero) ==
    IF ~o.ok THEN [ret |-> None(zero), log |-> <<>>]
    ELSE IF ~pred[o.value]
         THEN [ret |-> None(zero), log |-> <<Call1("pred", o.value)>>]
         ELSE [ret |-> o, log |-> <<Call1("pred", o.value)>>]

\* Mutant: fn is called without the presence check.
Tap_AlwaysCalls(o, fn) == [ret |-> o, log |-> <<Call1("fn", o.value)>>]

Tap(o, fn) ==
    IF o.ok THEN [ret |-> o, log |-> <<Call1("fn", o.value)>>]
    ELSE [ret |-> o, log |-> <<>>]

MapOr(o, defaultVal, fn) ==
    IF ~o.ok THEN [ret |-> defaultVal, log |-> <<>>]
    ELSE [ret |-> fn[o.value], log |-> <<Call1("fn", o.value)>>]

MapOrElse(o, defaultFn, fn) ==
    IF ~o.ok THEN [ret |-> defaultFn, log |-> <<Call0("defaultFn")>>]
    ELSE [ret |-> fn[o.value], log |-> <<Call1("fn", o.value)>>]

\* Mutant: the value fn returned is wrapped although fn failed.
TryMap_SomeOnError(o, fn, zeroU) ==
    IF ~o.ok THEN [ret |-> None(zeroU), err |-> "nil", log |-> <<>>]
    ELSE [ret |-> Some(fn[o.value].u), err |-> fn[o.value].err,
          log |-> <<Call1("fn", o.value)>>]

\* fn maps a T to the pair [u, err] it returns.
TryMap(o, fn, zeroU) ==
    IF ~o.ok THEN [ret |-> None(zeroU), err |-> "nil", log |-> <<>>]
    ELSE LET r == fn[o.value] IN
         IF r.err # "nil"
         THEN [ret |-> None(zeroU), err |-> r.err,
               log |-> <<Call1("fn", o.value)>>]
         ELSE [ret |-> Some(r.u), err |-> "nil",
               log |-> <<Call1("fn", o.value)>>]

(***************************************************************************)
(* Package functions.  zeroU is the zero value of the result type U.       *)
(***************************************************************************)
\* Mutant: fn is applied to the stored value whether or not it is present.
AndThen_CallsOnNone(o, fn, zeroU) ==
    [ret |-> fn[o.value], log |-> <<Call1("fn", o.value)>>]

\* fn maps a T to the Option[U] it returns.
AndThen(o, fn, zeroU) ==
    IF ~o.ok THEN [ret |-> None(zeroU), log |-> <<>>]
    ELSE [ret |-> fn[o.value], log |-> <<Call1("fn", o.value)>>]

\* Mutant: a result that is U's zero value is taken for an absent one.
Map_ZeroIsNone(o, fn, zeroU) ==
    IF ~o.ok THEN [ret |-> None(zeroU), log |-> <<>>]
    ELSE IF fn[o.value] = zeroU
         THEN [ret |-> None(zeroU), log |-> <<Call1("fn", o.value)>>]
         ELSE [ret |-> Some(fn[o.value]), log |-> <<Call1("fn", o.value)>>]

Map(o, fn, zeroU) ==
    IF ~o.ok THEN [ret |-> None(zeroU), log |-> <<>>]
    ELSE [ret |-> Some(fn[o.value]), log |-> <<Call1("fn", o.value)>>]

\* The package function Filter(o, pred): return o.Filter(pred)
PkgFilter(o, pred, zero) == Filter(o, pred, zero)

\* Mutant: the inner Option's flag is not looked at.
Flatten_IgnoresInner(o, zero) ==
    IF ~o.ok THEN None(zero) ELSE Some(o.value.value)

\* o is an Option[Option[T]]; zero is the zero value of T.
Flatten(o, zero) ==
    IF ~o.ok THEN None(zero) ELSE o.value

\* A float64 is an int of the bound or NaN, the value that == finds unequal
\* to every value, itself included.
NaN == MaxInt + 1
FloatVals == IntVals \cup {NaN}

\* x == y in Go for two values of the comparable type typ: float64
\* comparison, or field by field for the struct Option[int].
GoEq(typ, x, y) ==
    IF typ = "float64" THEN x # NaN /\ y # NaN /\ x = y
    ELSE x.ok = y.ok /\ x.value = y.value

\* Mutant: the presence flags are not compared.
Equals_ValueOnly(a, b, typ) == GoEq(typ, a.value, b.value)

\* typ is the type parameter T.
Equals(a, b, typ) ==
    IF a.ok # b.ok THEN FALSE
    ELSE IF ~a.ok THEN TRUE
    ELSE GoEq(typ, a.value, b.value)

\* Pair[A, B]{First: a, Second: b}
Pair(a, b) == [First |-> a, Second |-> b]

\* Mutant: the two values end up in each other's field.
Zip_Swapped(a, b, zeroPair) ==
    IF ~a.ok \/ ~b.ok THEN None(zeroPair)
    ELSE Some(Pair(b.value, a.value))

\* zeroPair is the zero value of Pair[T, U].
Zip(a, b, zeroPair) ==
    IF ~a.ok \/ ~b.ok THEN None(zeroPair)
    ELSE Some(Pair(a.value, b.value))

\* Mutant: the None branch is computed first, as a default.
Match_BothCalled(o, onSome, onNone) ==
    IF o.ok THEN [ret |-> onSome[o.value],
                  log |-> <<Call0("onNone"), Call1("onSome", o.value)>>]
    ELSE [ret |-> onNone, log |-> <<Call0("onNone")>>]

\* onSome maps a T to the R it returns; onNone is the R that onNone()
\* returns.
Match(o, onSome, onNone) ==
    IF o.ok THEN [ret |-> onSome[o.value], log |-> <<Call1("onSome", o.value)>>]
    ELSE [ret |-> onNone, log |-> <<Call0("onNone")>>]

\* The package function Tap(o, fn): return o.Tap(fn)
PkgTap(o, fn) == Tap(o, fn)

(***************************************************************************)
(* Byte slices                                                             *)
(***************************************************************************)
NullBytes == <<"n", "u", "l", "l">>

\* unicode.IsSpace on the bytes that occur ('\f' is a space for the bytes
\* package but not for JSON).
IsSpace(c) == c \in {" ", "\t", "\n", "\r", "\f"}

RECURSIVE TrimLeft(_)
TrimLeft(s) ==
    IF s # <<>> /\ IsSpace(Head(s)) THEN TrimLeft(Tail(s)) ELSE s

RECURSIVE TrimRight(_)
TrimRight(s) ==
    IF s # <<>> /\ IsSpace(s[Len(s)])
    THEN TrimRight(SubSeq(s, 1, Len(s) - 1)) ELSE s

\* bytes.TrimSpace
TrimSpace(s) == TrimRight(TrimLeft(s))

(***************************************************************************)
(* encoding/json, restricted to the bytes that occur in the inputs: white  *)
(* space, the literal null, decimal numbers, strings without escapes,      *)
(* empty objects and arrays of at most one element (the inputs contain     *)
(* neither ',' nor ':').                                                   *)
(***************************************************************************)
JsonSpace(c) == c \in {" ", "\t", "\n", "\r"}

RECURSIVE JsonTrimLeft(_)
JsonTrimLeft(s) ==
    IF s # <<>> /\ JsonSpace(Head(s)) THEN JsonTrimLeft(Tail(s)) ELSE s

RECURSIVE JsonTrimRight(_)
JsonTrimRight(s) ==
    IF s # <<>> /\ JsonSpace(s[Len(s)])
    THEN JsonTrimRight(SubSeq(s, 1, Len(s) - 1)) ELSE s

JsonTrim(s) == JsonTrimRight(JsonTrimLeft(s))

DigitChars == <<"0", "1", "2", "3", "4", "5", "6", "7", "8", "9">>

IsDigit(c) == \E i \in 1 .. 10 : DigitChars[i] = c

DigitValue(c) == (CHOOSE i \in 1 .. 10 : DigitChars[i] = c) - 1

IsNumber(s) ==
    /\ s # <<>>
    /\ \A i \in 1 .. Len(s) : IsDigit(s[i])
    /\ (s[1] = "0" => Len(s) = 1)

IsString(s) ==
    /\ Len(s) >= 2
    /\ s[1] = "\"" /\ s[Len(s)] = "\""
    /\ \A i \in 2 .. Len(s) - 1 : s[i] \notin {"\"", "\\", "\t", "\n", "\r", "\f"}

\* s is exactly one JSON value, without surrounding white space.
RECURSIVE IsValue(_)
IsValue(s) ==
    \/ s = NullBytes
    \/ IsNumber(s)
    \/ IsString(s)
    \/ /\ Len(s) >= 2 /\ s[1] = "{" /\ s[Len(s)] = "}"
       /\ JsonTrim(SubSeq(s, 2, Len(s) - 1)) = <<>>
    \/ /\ Len(s) >= 2 /\ s[1] = "[" /\ s[Len(s)] = "]"
       /\ LET m == JsonTrim(SubSeq(s, 2, Len(s) - 1))
          IN  m = <<>> \/ IsValue(m)

\* checkValid: the whole input is one JSON value surrounded by white space.
JsonValid(data) == IsValue(JsonTrim(data))

RECURSIVE ParseInt(_)
ParseInt(s) ==
    IF Len(s) = 1 THEN DigitValue(s[1])
    ELSE 10 * ParseInt(SubSeq(s, 1, Len(s) - 1)) + DigitValue(s[Len(s)])

RECURSIVE FormatInt(_)
FormatInt(k) ==
    IF k < 10 THEN <<DigitChars[k + 1]>>
    ELSE FormatInt(k \div 10) \o <<DigitChars[(k % 10) + 1]>>

(***************************************************************************)
(* Serialization.  The codec functions handed to MarshalOption and         *)
(* UnmarshalOption are the wrappers of json.Marshal and json.Unmarshal at  *)
(* the type T; a codec is named by that type, "int" or "Option[int]".      *)
(* The hooks MarshalJSON and UnmarshalJSON of Option[T] call encoding/json *)
(* at T, and encoding/json at Option[int] calls the hooks back.            *)
(***************************************************************************)
\* json.Unmarshal(item, &t) for a [1]int t and a valid item: null leaves t
\* alone; of an array, a number is stored in t[0], a null element leaves
\* t[0] alone, any other element is an UnmarshalTypeError that leaves it
\* alone, and t[0] is zeroed if the array has no element; any other value
\* is an UnmarshalTypeError.
JsonUnmarshalArray(item, t) ==
    IF item = NullBytes THEN [t |-> t, err |-> "nil"]
    ELSE IF item[1] = "["
    THEN LET m == JsonTrim(SubSeq(item, 2, Len(item) - 1)) IN
         IF m = <<>> THEN [t |-> <<ZeroInt>>, err |-> "nil"]
         ELSE IF m = NullBytes THEN [t |-> t, err |-> "nil"]
         ELSE IF IsNumber(m) THEN [t |-> <<ParseInt(m)>>, err |-> "nil"]
         ELSE [t |-> t, err |-> "UnmarshalTypeError"]
    ELSE [t |-> t, err |-> "UnmarshalTypeError"]

RECURSIVE JsonMarshal(_, _)
RECURSIVE JsonUnmarshal(_, _, _)

MarshalOption(o, marshal) ==
    IF ~o.ok THEN [data |-> NullBytes, err |-> "nil"]
    ELSE JsonMarshal(marshal, o.value)

\* Mutant: null is not recognised, only empty input is.
UnmarshalOption_EmptyOnly(data, unmarshal, zero) ==
    IF Len(TrimSpace(data)) = 0
    THEN [ret |-> None(zero), err |-> "nil", log |-> <<>>]
    ELSE LET r == JsonUnmarshal(unmarshal, data, zero)
             log == <<[data |-> data, into |-> zero]>>
         IN  IF r.err # "nil"
             THEN [ret |-> None(zero), err |-> r.err, log |-> log]
             ELSE [ret |-> Some(r.t), err |-> "nil", log |-> log]

\* Mutant: the decoder is given the trimmed bytes.
UnmarshalOption_Trimmed(data, unmarshal, zero) ==
    LET trimmed == TrimSpace(data) IN
    IF Len(trimmed) = 0 \/ trimmed = NullBytes
    THEN [ret |-> None(zero), err |-> "nil", log |-> <<>>]
    ELSE LET r == JsonUnmarshal(unmarshal, trimmed, zero)
             log == <<[data |-> trimmed, into |-> zero]>>
         IN  IF r.err # "nil"
             THEN [ret |-> None(zero), err |-> r.err, log |-> log]
             ELSE [ret |-> Some(r.t), err |-> "nil", log |-> log]

\* log records the decoder's invocations: the bytes it was given and the T
\* it was asked to fill.
UnmarshalOption(data, unmarshal, zero) ==
    LET trimmed == TrimSpace(data) IN
    IF Len(trimmed) = 0 \/ trimmed = NullBytes
    THEN [ret |-> None(zero), err |-> "nil", log |-> <<>>]
    ELSE LET r == JsonUnmarshal(unmarshal, data, zero)
             log == <<[data |-> data, into |-> zero]>>
         IN  IF r.err # "nil"
             THEN [ret |-> None(zero), err |-> r.err, log |-> log]
             ELSE [ret |-> Some(r.t), err |-> "nil", log |-> log]

\* typ is the type parameter T.
MarshalJSON(o, typ) ==
    IF ~o.ok THEN [data |-> NullBytes, err |-> "nil"]
    ELSE JsonMarshal(typ, o.value)

\* o.UnmarshalJSON(data) for an Option[T] o: yields the receiver afterwards
\* and the error.  zero is the zero value of T.
UnmarshalJSON(o, data, typ, zero) ==
    LET trimmed == TrimSpace(data) IN
    IF Len(trimmed) = 0 \/ trimmed = NullBytes
    THEN [o |-> Option(zero, FALSE), err |-> "nil"]
    ELSE LET o1 == [o EXCEPT !.ok = TRUE]
             r == JsonUnmarshal(typ, data, o1.value)
         IN  [o |-> [o1 EXCEPT !.value = r.t], err |-> r.err]

\* json.Marshal(v): an int is formatted; for an Option[int] the Marshaler
\* hook is called.
JsonMarshal(typ, v) ==
    IF typ = "int" THEN [data |-> FormatInt(v), err |-> "nil"]
    ELSE MarshalJSON(v, "int")

\* json.Unmarshal(data, &t), yielding t afterwards and the error.  Invalid
\* input is rejected before t is touched.  For an int t, null leaves t
\* alone, a number is stored, any other value is an UnmarshalTypeError that
\* leaves t alone.  For an Option[int] t the Unmarshaler hook is called with
\* the bytes of the value.
JsonUnmarshal(typ, data, t) ==
    IF ~JsonValid(data) THEN [t |-> t, err |-> "SyntaxError"]
    ELSE LET item == JsonTrim(data) IN
         IF typ = "int"
         THEN IF item = NullBytes THEN [t |-> t, err |-> "nil"]
              ELSE IF IsNumber(item) THEN [t |-> ParseInt(item), err |-> "nil"]
              ELSE [t |-> t, err |-> "UnmarshalTypeError"]
         ELSE IF typ = "[1]int"
         THEN JsonUnmarshalArray(item, t)
         ELSE LET r == UnmarshalJSON(t, item, "int", ZeroInt)
              IN  [t |-> r.o, err |-> r.err]

(***************************************************************************)
(* ToPointer and the heap.  A pointer is NilPtr, the address of a heap     *)
(* cell, or StorageAddr, which stands for &o.value, the storage of the     *)
(* shared Option itself.                                                   *)
(***************************************************************************)
StorageAddr == MaxCells + 1

Free(mem) == Addrs \ DOMAIN mem

\* new(T): the address of a cell that was not allocated before.
New(mem) == CHOOSE a \in Free(mem) : \A b \in Free(mem) : a <= b

\* Mutant: the address of the Option's own storage is returned.
ToPointer_Alias(o, mem) ==
    IF ~o.ok THEN [ptr |-> NilPtr, mem |-> mem]
    ELSE [ptr |-> StorageAddr, mem |-> mem]

\* Yields the pointer returned and the heap afterwards.
ToPointer(o, mem) ==
    IF ~o.ok THEN [ptr |-> NilPtr, mem |-> mem]
    ELSE LET v == New(mem)
         IN  [ptr |-> v, mem |-> (v :> o.value) @@ mem]

(***************************************************************************)
(* Inputs                                                                  *)
(***************************************************************************)
Alphabet == {" ", "n", "u", "l", "1", "[", "]"}

BoundedSeqs == UNION {[1 .. n -> Alphabet] : n \in 0 .. MaxLen}

ExtraInputs ==
    { NullBytes,
      <<" ", "n", "u", "l", "l", "\n">>,
      <<"\f", "n", "u", "l", "l">>,
      <<"\f">>,
      <<"\f", "1">>,
      <<"0">>,
      <<" ", "0", " ">>,
      <<"{", "}">>,
      <<"\"", "\"">>,
      <<"[", "n", "u", "l", "l", "]">> }

Inputs == BoundedSeqs \cup ExtraInputs

Errs == {"nil", "boom"}
Msgs == {"", "required"}

\* Option[T] values whose contained ints are within the bound.
OptT == {None(ZeroT)} \cup {Some(t) : t \in TVals}
OptInt == TVals

EmptyHeap == <<>>

(***************************************************************************)
(* State                                                                   *)
(***************************************************************************)
VARIABLES
    o,        \* the shared Option[T] variable the methods are called on
    heap,     \* the allocated heap cells of type T
    res,      \* the call the client last made and still holds the results
              \* of: operation, receiver copy, arguments, results
    made,     \* the Option o held when the goroutines were given it
    started,  \* a goroutine has started an o.UnmarshalJSON call
    th        \* the goroutines that share o: for each, the call it is in

vars == <<o, heap, res, made, started, th>>

Threads == 1 .. NumThreads

IdleThread == [pc |-> "idle"]

Rec(op, recv, args, out) == [op |-> op, recv |-> recv, args |-> args, out |-> out]

NoArgs == [none |-> TRUE]

NoCall == [op |-> "idle"]

Idle == res.op = "idle"

\* var o Option[T]: the zero value, which is None.
Init ==
    /\ o = Option(ZeroT, FALSE)
    /\ heap = EmptyHeap
    /\ res = NoCall
    /\ made = o
    /\ started = FALSE
    /\ th = [t \in Threads |-> IdleThread]

\* A call that leaves the shared Option and the heap alone.
Pure(r) ==
    /\ Idle
    /\ res' = r
    /\ UNCHANGED <<o, heap, made, started, th>>

\* The client drops the results of the last call.
DoReturn ==
    /\ ~Idle
    /\ res' = NoCall
    /\ UNCHANGED <<o, heap, made, started, th>>

(***************************************************************************)
(* Constructors                                                            *)
(***************************************************************************)
DoSome ==
    \E v \in TVals : Pure(Rec("Some", o, [v |-> v], [ret |-> Some(v)]))

DoNone == Pure(Rec("None", o, NoArgs, [ret |-> None(ZeroT)]))

\* x := v; FromPtr(&x), or FromPtr(nil).  mem is the memory p points into.
DoFromPtr ==
    \E p \in {NilPtr, 1}, v \in TVals :
        LET mem == (1 :> v) IN
        Pure(Rec("FromPtr", o, [p |-> p, mem |-> mem],
                 [ret |-> FromPtr(p, mem, ZeroT)]))

DoFromTuple ==
    \E v \in TVals, k \in BOOLEAN :
        Pure(Rec("FromTuple", o, [v |-> v, ok |-> k],
                 [ret |-> FromTuple(v, k, ZeroT)]))

DoTry ==
    \E v \in TVals, e \in Errs :
        Pure(Rec("Try", o, [v |-> v, err |-> e], [ret |-> Try(v, e, ZeroT)]))

DoCond ==
    \E k \in BOOLEAN, v \in TVals :
        Pure(Rec("Cond", o, [v |-> v, ok |-> k], [ret |-> Cond(k, v, ZeroT)]))

\* o = <the Option the last call returned>: a newly constructed Option is
\* stored in the shared variable.
DoStore ==
    /\ res.op \in {"Some", "None", "FromPtr", "FromTuple", "Try", "Cond",
                   "Or", "OrElse", "Filter", "Tap", "TryMap"}
    /\ res.out.ret \in OptT
    /\ o' = res.out.ret
    /\ res' = NoCall
    /\ UNCHANGED <<heap, made, started, th>>

(***************************************************************************)
(* Inspection, unwrap, combinators: value receivers, called on a copy of o *)
(***************************************************************************)
DoIsSome == Pure(Rec("IsSome", o, NoArgs, [ret |-> IsSome(o)]))

DoIsNone == Pure(Rec("IsNone", o, NoArgs, [ret |-> IsNone(o)]))

DoGet == Pure(Rec("Get", o, NoArgs, [ret |-> Get(o)]))

DoUnwrap == Pure(Rec("Unwrap", o, NoArgs, Unwrap(o)))

DoExpect == \E m \in Msgs : Pure(Rec("Expect", o, [msg |-> m], Expect(o, m)))

DoUnwrapOr ==
    \E d \in TVals : Pure(Rec("UnwrapOr", o, [d |-> d], [ret |-> UnwrapOr(o, d)]))

DoUnwrapOrElse ==
    \E fn \in TVals : Pure(Rec("UnwrapOrElse", o, [fn |-> fn], UnwrapOrElse(o, fn)))

DoOr ==
    \E other \in OptT : Pure(Rec("Or", o, [other |-> other], [ret |-> Or(o, other)]))

DoOrElse ==
    \E fn \in OptT : Pure(Rec("OrElse", o, [fn |-> fn], OrElse(o, fn)))

DoFilter ==
    \E pred \in [TVals -> BOOLEAN] :
        Pure(Rec("Filter", o, [pred |-> pred], Filter(o, pred, ZeroT)))

DoTap ==
    \E fn \in {"log"} : Pure(Rec("Tap", o, [fn |-> fn], Tap(o, fn)))

DoMapOr ==
    \E d \in TVals, fn \in [TVals -> TVals] :
        Pure(Rec("MapOr", o, [d |-> d, fn |-> fn], MapOr(o, d, fn)))

DoMapOrElse ==
    \E d \in TVals, fn \in [TVals -> TVals] :
        Pure(Rec("MapOrElse", o, [defaultFn |-> d, fn |-> fn], MapOrElse(o, d, fn)))

DoTryMap ==
    \E fn \in [TVals -> [u : TVals, err : Errs]] :
        Pure(Rec("TryMap", o, [fn |-> fn], TryMap(o, fn, ZeroT)))

(***************************************************************************)
(* Serialization                                                           *)
(***************************************************************************)
DoMarshalOption ==
    Pure(Rec("MarshalOption", o, NoArgs, MarshalOption(o, "Option[int]")))

\* The bytes to decode: an input, or the bytes the last encode produced
\* (src is then the Option that was encoded).
Sources ==
    IF Idle THEN {[data |-> d, from |-> "input"] : d \in Inputs}
    ELSE IF res.op \in {"MarshalOption", "MarshalJSON"} /\ res.out.err = "nil"
    THEN {[data |-> res.out.data, from |-> res.op, src |-> res.recv]}
    ELSE {}

DoUnmarshalOption ==
    \E s \in Sources :
        /\ res' = Rec("UnmarshalOption", o, s,
                      UnmarshalOption(s.data, "Option[int]", ZeroT))
        /\ UNCHANGED <<o, heap, made, started, th>>

\* UnmarshalOption[int]
DoUnmarshalOptionInt ==
    \E d \in Inputs :
        Pure(Rec("UnmarshalOptionInt", o, [data |-> d],
                 UnmarshalOption(d, "int", ZeroInt)))

DoMarshalJSON ==
    Pure(Rec("MarshalJSON", o, NoArgs, MarshalJSON(o, "Option[int]")))

\* o.UnmarshalJSON(data), pointer receiver: the shared Option is written.
DoUnmarshalJSON ==
    \E s \in Sources :
        LET r == UnmarshalJSON(o, s.data, "Option[int]", ZeroT) IN
        /\ r.o \in OptT
        /\ o' = r.o
        /\ res' = Rec("UnmarshalJSON", o, s, [err |-> r.err])
        /\ UNCHANGED <<heap, made, started, th>>

Next ==
    \/ DoSome \/ DoNone \/ DoFromPtr \/ DoFromTuple \/ DoTry
    \/ DoCond \/ DoStore \/ DoReturn
    \/ DoIsSome \/ DoIsNone \/ DoGet \/ DoUnwrap \/ DoExpect
    \/ DoUnwrapOr \/ DoUnwrapOrElse \/ DoOr \/ DoOrElse \/ DoFilter \/ DoTap
    \/ DoMapOr \/ DoMapOrElse \/ DoTryMap
    \/ DoMarshalOption \/ DoUnmarshalOption \/ DoUnmarshalOptionInt
    \/ DoMarshalJSON \/ DoUnmarshalJSON

Spec == Init /\ [][Next]_vars

(***************************************************************************)
(* ToPointer: the client takes pointers from the shared Option and writes  *)
(* through them.                                                           *)
(***************************************************************************)
Allocated == Addrs \ Free(heap)

DoToPointer ==
    /\ Idle
    /\ Free(heap) # {}
    /\ LET r == ToPointer(o, heap) IN
       /\ heap' = r.mem
       /\ res' = Rec("ToPointer", o, [mem |-> heap], [ptr |-> r.ptr])
    /\ UNCHANGED <<o, made, started, th>>

\* The pointers the client may write through: the one the ToPointer call
\* just returned, or else any it got earlier.
Held ==
    IF res.op = "ToPointer" THEN {res.out.ptr} \ {NilPtr}
    ELSE IF Idle THEN Allocated ELSE {}

\* *p = v
DoWritePtr ==
    \E p \in Held, v \in TVals :
        /\ IF p = StorageAddr
           THEN o' = [o EXCEPT !.value = v] /\ heap' = heap
           ELSE heap' = [heap EXCEPT ![p] = v] /\ o' = o
        /\ res' = Rec("WritePtr", o, [p |-> p, v |-> v], [unwrap |-> Unwrap(o')])
        /\ UNCHANGED <<made, started, th>>

NextPtr == DoSome \/ DoStore \/ DoToPointer \/ DoWritePtr \/ DoReturn

SpecPtr == Init /\ [][NextPtr]_vars

(***************************************************************************)
(* Goroutines that share o.  A value-receiver method is called on a copy   *)
(* of o that the caller makes field by field; o.UnmarshalJSON writes o     *)
(* through its pointer receiver, one field at a time.  Nothing in the      *)
(* package synchronises the two.                                           *)
(***************************************************************************)
Fields == {"value", "ok"}

ConcInputs == {NullBytes, <<"1">>, <<"[">>}

\* The predicate the goroutines pass to Filter.
Reject == [v \in TVals |-> FALSE]

SetThread(t, r) ==
    th' = [th EXCEPT ![t] = r]

\* go o.Get() / go o.Filter(Reject): the call starts, the receiver is not
\* copied yet.
CCall(t) ==
    \E op \in {"Get", "Filter"} :
        /\ th[t].pc = "idle"
        /\ SetThread(t, [pc |-> "copy", op |-> op, todo |-> Fields,
                         recv |-> None(ZeroT)])
        /\ UNCHANGED <<o, heap, res, made, started>>

\* One field of o is copied into the receiver.
CCopy(t) ==
    /\ th[t].pc = "copy"
    /\ \E f \in th[t].todo :
        LET recv == IF f = "value" THEN [th[t].recv EXCEPT !.value = o.value]
                    ELSE [th[t].recv EXCEPT !.ok = o.ok]
            todo == th[t].todo \ {f}
        IN  SetThread(t, [pc |-> IF todo = {} THEN "run" ELSE "copy",
                          op |-> th[t].op, todo |-> todo, recv |-> recv])
    /\ UNCHANGED <<o, heap, res, made, started>>

\* Mutant: Filter has a pointer receiver and filters in place.
CFilter_InPlace(t) ==
    /\ th[t].pc = "run"
    /\ th[t].op = "Filter"
    /\ SetThread(t, [pc |-> "done", op |-> "Filter",
                     out |-> Filter(th[t].recv, Reject, ZeroT).ret])
    /\ o' = Filter(o, Reject, ZeroT).ret
    /\ UNCHANGED <<heap, res, made, started>>

CGet(t) ==
    /\ th[t].pc = "run"
    /\ th[t].op = "Get"
    /\ SetThread(t, [pc |-> "done", op |-> "Get", out |-> Get(th[t].recv)])
    /\ UNCHANGED <<o, heap, res, made, started>>

CFilter(t) ==
    /\ th[t].pc = "run"
    /\ th[t].op = "Filter"
    /\ SetThread(t, [pc |-> "done", op |-> "Filter",
                     out |-> Filter(th[t].recv, Reject, ZeroT).ret])
    /\ UNCHANGED <<o, heap, res, made, started>>

\* go o.UnmarshalJSON(data): the input is trimmed and compared with null.
CUnmarshalJSON(t) ==
    \E data \in ConcInputs :
        LET trimmed == TrimSpace(data) IN
        /\ th[t].pc = "idle"
        /\ SetThread(t, [pc |-> IF Len(trimmed) = 0 \/ trimmed = NullBytes
                                THEN "reset" ELSE "setok",
                         op |-> "UnmarshalJSON", data |-> data,
                         todo |-> Fields])
        /\ started' = TRUE
        /\ UNCHANGED <<o, heap, res, made>>

\* *o = Option[T]{}: one field of o is cleared.
CReset(t) ==
    /\ th[t].pc = "reset"
    /\ \E f \in th[t].todo :
        LET todo == th[t].todo \ {f} IN
        /\ o' = IF f = "value" THEN [o EXCEPT !.value = ZeroT]
                ELSE [o EXCEPT !.ok = FALSE]
        /\ SetThread(t, IF todo = {}
                        THEN [pc |-> "done", op |-> "UnmarshalJSON",
                              err |-> "nil"]
                        ELSE [th[t] EXCEPT !.todo = todo])
    /\ UNCHANGED <<heap, res, made, started>>

\* o.ok = true
CSetOk(t) ==
    /\ th[t].pc = "setok"
    /\ o' = [o EXCEPT !.ok = TRUE]
    /\ SetThread(t, [th[t] EXCEPT !.pc = "decode"])
    /\ UNCHANGED <<heap, res, made, started>>

\* return json.Unmarshal(data, &o.value)
CDecode(t) ==
    /\ th[t].pc = "decode"
    /\ LET r == JsonUnmarshal("Option[int]", th[t].data, o.value) IN
       /\ o' = [o EXCEPT !.value = r.t]
       /\ SetThread(t, [pc |-> "done", op |-> "UnmarshalJSON", err |-> r.err])
    /\ UNCHANGED <<heap, res, made, started>>

\* The goroutine ends.
CReturn(t) ==
    /\ th[t].pc = "done"
    /\ SetThread(t, IdleThread)
    /\ UNCHANGED <<o, heap, res, made, started>>

NextConc ==
    \E t \in Threads :
        \/ CCall(t) \/ CCopy(t) \/ CGet(t) \/ CFilter(t)
        \/ CUnmarshalJSON(t) \/ CReset(t) \/ CSetOk(t) \/ CDecode(t)
        \/ CReturn(t)

\* The goroutines are started on an Option a constructor returned.
InitConc ==
    /\ \E v \in TVals, k \in BOOLEAN : o = FromTuple(v, k, ZeroT)
    /\ heap = EmptyHeap
    /\ res = NoCall
    /\ made = o
    /\ started = FALSE
    /\ th = [t \in Threads |-> IdleThread]

SpecConc == InitConc /\ [][NextConc]_vars

(***************************************************************************)
(* The package functions, called on the shared Option.  The result type U  *)
(* of a callback is int.                                                   *)
(***************************************************************************)
\* AndThen[T, int]
DoAndThen ==
    \E fn \in [TVals -> OptInt] :
        Pure(Rec("AndThen", o, [fn |-> fn], AndThen(o, fn, ZeroInt)))

\* func(x T) T { return x }
Identity == [v \in TVals |-> v]

\* Map[T, int]
DoMap ==
    \E fn \in [TVals -> IntVals] :
        Pure(Rec("Map", o, [fn |-> fn], Map(o, fn, ZeroInt)))

\* Map[T, T](o, identity)
DoMapIdentity ==
    Pure(Rec("MapIdentity", o, [fn |-> Identity], Map(o, Identity, ZeroT)))

\* Map(Map(o, f), g): the Option the last Map call returned is mapped
\* again.  recv and f are those of the first call.
DoMapAgain ==
    \E g \in [IntVals -> IntVals] :
        /\ res.op = "Map"
        /\ res' = Rec("MapMap", res.recv, [f |-> res.args.fn, g |-> g],
                      Map(res.out.ret, g, ZeroInt))
        /\ UNCHANGED <<o, heap, made, started, th>>

DoPkgFilter ==
    \E pred \in [TVals -> BOOLEAN] :
        Pure(Rec("PkgFilter", o, [pred |-> pred], PkgFilter(o, pred, ZeroT)))

\* Flatten[int]
DoFlatten == Pure(Rec("Flatten", o, NoArgs, [ret |-> Flatten(o, ZeroInt)]))

\* Equals[Option[int]](o, b) and, with the arguments exchanged, Equals(b, o)
DoEquals ==
    \E b \in OptT :
        Pure(Rec("Equals", o, [b |-> b],
                 [ret |-> Equals(o, b, "Option[int]"),
                  swapped |-> Equals(b, o, "Option[int]")]))

OptFloat == {None(ZeroInt)} \cup {Some(x) : x \in FloatVals}

\* Equals[float64](a, b) and Equals(b, a)
DoEqualsFloat ==
    \E a \in OptFloat, b \in OptFloat :
        Pure(Rec("EqualsFloat", o, [a |-> a, b |-> b],
                 [ret |-> Equals(a, b, "float64"),
                  swapped |-> Equals(b, a, "float64")]))

\* Zip[T, T](o, b)
DoZip ==
    \E b \in OptT :
        Pure(Rec("Zip", o, [b |-> b], [ret |-> Zip(o, b, Pair(ZeroT, ZeroT))]))

\* Match[T, int]
DoMatch ==
    \E onSome \in [TVals -> IntVals], onNone \in IntVals :
        Pure(Rec("Match", o, [onSome |-> onSome, onNone |-> onNone],
                 Match(o, onSome, onNone)))

DoPkgTap ==
    \E fn \in {"log"} : Pure(Rec("PkgTap", o, [fn |-> fn], PkgTap(o, fn)))

NextFn ==
    \/ DoSome \/ DoStore \/ DoReturn
    \/ DoAndThen \/ DoMap \/ DoMapIdentity \/ DoMapAgain
    \/ DoFilter \/ DoPkgFilter \/ DoFlatten
    \/ DoEquals \/ DoEqualsFloat \/ DoZip
    \/ DoMatch \/ DoTap \/ DoPkgTap

SpecFn == Init /\ [][NextFn]_vars

(***************************************************************************)
(* The decode hook on receivers that earlier decodes have filled: the      *)
(* shared Option[Option[int]], and a local Option[[1]int].                 *)
(***************************************************************************)
ZeroArray == <<ZeroInt>>

OptArray == {None(ZeroArray)} \cup {Some(<<k>>) : k \in IntVals}

\* var a Option[[1]int] = w; err := a.UnmarshalJSON(data)
DoUnmarshalJSONArray ==
    \E w \in OptArray, d \in Inputs :
        Pure(Rec("UnmarshalJSONArray", w, [data |-> d],
                 UnmarshalJSON(w, d, "[1]int", ZeroArray)))

NextJson ==
    \/ DoUnmarshalJSON \/ DoUnmarshalJSONArray \/ DoReturn

SpecJson == Init /\ [][NextJson]_vars

(***************************************************************************)
(* Properties                                                              *)
(***************************************************************************)

\* The last call was op, and the client still holds its results.
Called(op) == res.op = op

\* The last call decoded the bytes that MarshalOption had produced for the
\* Option res.args.src.
RoundTrip == Called("UnmarshalOption") /\ res.args.from = "MarshalOption"

\* C1 (as claimed): decoding what MarshalOption encoded returns the Option
\* that was encoded, with no error, for every Option, also a Some whose
\* value encodes as null.
C1_RoundTripAll ==
    RoundTrip => res.out.ret = res.args.src /\ res.out.err = "nil"

\* C1 (amended): decoding what MarshalOption encoded returns the Option that
\* was encoded, with no error, for None and for every Some(v) whose encoding
\* is, after trimming white space, neither empty nor the literal null.
C1_RoundTrip ==
    ( /\ RoundTrip
      /\ res.args.src.ok => TrimSpace(res.args.data) \notin {<<>>, NullBytes} )
    => res.out.ret = res.args.src /\ res.out.err = "nil"

C1_Witness ==
    /\ RoundTrip
    /\ res.args.src = Some(Some(1))
    /\ res.args.data = <<"1">>
    /\ res.out.ret = Some(Some(1))

\* C2: whenever o.UnmarshalJSON returns an error, the receiver is not left
\* as a Some.
C2_FailedDecodeLeavesNone ==
    Called("UnmarshalJSON") /\ res.out.err # "nil" => ~IsSome(o)

\* C3: TryMap and UnmarshalOption never return an error together with a
\* Some.  TryMap on None returns (None, nil) without calling fn; on Some(v)
\* it calls fn once with v and returns (None, err) if fn fails, (Some(u),
\* nil) if fn returns u.  UnmarshalOption returns (None, err) when the
\* decoder fails and (Some(t), nil) when it decodes t.
C3_ErrorExcludesSome ==
    /\ Called("TryMap") =>
         LET v == res.recv.value
             r == res.args.fn[v]
         IN  IF ~res.recv.ok
             THEN /\ res.out.ret = None(ZeroT)
                  /\ res.out.err = "nil"
                  /\ res.out.log = <<>>
             ELSE /\ Len(res.out.log) = 1
                  /\ res.out.log[1] = [fn |-> "fn", arg |-> v]
                  /\ IF r.err # "nil"
                     THEN res.out.ret = None(ZeroT) /\ res.out.err = r.err
                     ELSE res.out.ret = Some(r.u) /\ res.out.err = "nil"
    /\ Called("UnmarshalOption") /\ res.out.log # <<>> =>
         LET d == JsonUnmarshal("Option[int]", res.args.data, ZeroT)
         IN  IF d.err # "nil"
             THEN res.out.ret = None(ZeroT) /\ res.out.err = d.err
             ELSE res.out.ret = Some(d.t) /\ res.out.err = "nil"
    /\ Called("TryMap") \/ Called("UnmarshalOption") =>
         (res.out.err # "nil" => ~res.out.ret.ok)

C3_Witness ==
    \/ /\ Called("TryMap")
       /\ res.recv.ok
       /\ res.out.err = "boom"
       /\ res.out.ret = None(ZeroT)
    \/ /\ Called("UnmarshalOption")
       /\ res.out.err = "UnmarshalTypeError"
       /\ res.out.ret = None(ZeroT)

\* White space only, or the literal null surrounded by white space, stated
\* without trimming.
AllSpace(s) == \A i \in 1 .. Len(s) : s[i] \in {" ", "\t", "\n", "\r", "\f"}

NullPadded(s) ==
    \E i \in 0 .. Len(s) :
        /\ i + 4 <= Len(s)
        /\ AllSpace(SubSeq(s, 1, i))
        /\ SubSeq(s, i + 1, i + 4) = <<"n", "u", "l", "l">>
        /\ AllSpace(SubSeq(s, i + 5, Len(s)))

\* C4: UnmarshalOption returns (None, nil) without invoking the decoder
\* exactly when the input is only white space or null surrounded by white
\* space; on every other input it invokes the decoder once, on the untrimmed
\* input and a zero T, returns Some of what was decoded (also of a decoded
\* zero value) and the decoder's error if it fails.
C4_NoneTriggers ==
    /\ Called("UnmarshalOption") =>
         LET absent == AllSpace(res.args.data) \/ NullPadded(res.args.data)
         IN  /\ absent <=> (~res.out.ret.ok /\ res.out.err = "nil"
                            /\ res.out.log = <<>>)
             /\ ~absent =>
                  /\ Len(res.out.log) = 1
                  /\ res.out.log[1] = [data |-> res.args.data, into |-> ZeroT]
                  /\ res.out.ret.ok <=> res.out.err = "nil"
    /\ Called("UnmarshalOptionInt") =>
         LET absent == AllSpace(res.args.data) \/ NullPadded(res.args.data)
         IN  /\ absent <=> (~res.out.ret.ok /\ res.out.err = "nil"
                            /\ res.out.log = <<>>)
             /\ ~absent =>
                  /\ Len(res.out.log) = 1
                  /\ res.out.log[1] = [data |-> res.args.data, into |-> ZeroInt]
                  /\ res.out.ret.ok <=> res.out.err = "nil"
             /\ res.args.data = <<"0">> => res.out.ret = Some(ZeroInt)

C4_Witness ==
    /\ Called("UnmarshalOptionInt")
    /\ res.args.data = <<" ", "0", " ">>
    /\ res.out.ret = Some(ZeroInt)
    /\ res.out.log = <<[data |-> <<" ", "0", " ">>, into |-> ZeroInt]>>

\* Goroutine t has finished a Get() call and holds what it returned.
GotGet(t) == th[t].pc = "done" /\ th[t].op = "Get"

\* C5 (as claimed): no method changes an existing Option, so while any
\* goroutines call methods on a shared Option, every Get() returns the value
\* and flag the Option was constructed with.
C5_Immutable ==
    \A t \in Threads : GotGet(t) => th[t].out = Get(made)

\* C5 (amended): no method other than UnmarshalJSON changes an existing
\* Option: until an o.UnmarshalJSON call starts, the shared Option is the
\* one that was constructed and every Get() returns its value and flag,
\* whatever other methods the goroutines call.
C5_ImmutableUntilDecode ==
    ~started =>
        /\ o = made
        /\ \A t \in Threads : GotGet(t) => th[t].out = Get(made)

C5_Witness ==
    /\ ~started
    /\ made = Some(Some(1))
    /\ \E t, u \in Threads :
         /\ GotGet(t)
         /\ th[t].out = <<Some(1), TRUE>>
         /\ th[u].pc = "done"
         /\ th[u].op = "Filter"
         /\ th[u].out = None(ZeroT)

\* The Options of type Option[T] that a call returns.
ReturnsOptT ==
    res.op \in {"Some", "None", "FromPtr", "FromTuple", "Try", "Cond", "Or",
                "OrElse", "Filter", "Tap", "TryMap", "UnmarshalOption"}

\* x is an Option[int]: the three queries agree and a None holds int's zero.
ConsistentInt(x) ==
    /\ IsSome(x) = Get(x)[2]
    /\ IsSome(x) = ~IsNone(x)
    /\ IsNone(x) => Get(x)[1] = ZeroInt

\* x is an Option[T]: the same, and the contained T is an Option[int].
ConsistentT(x) ==
    /\ IsSome(x) = Get(x)[2]
    /\ IsSome(x) = ~IsNone(x)
    /\ IsNone(x) => Get(x)[1] = ZeroT
    /\ ConsistentInt(Get(x)[1])

\* C6: for the shared Option, whatever was decoded into it, and for every
\* Option a constructor, combinator or decode call returns, IsSome() is the
\* flag of Get() and the negation of IsNone(), and a None holds the zero
\* value of its type.
C6_Consistent ==
    /\ ConsistentT(o)
    /\ ReturnsOptT => ConsistentT(res.out.ret)
    /\ Called("UnmarshalOptionInt") => ConsistentInt(res.out.ret)

C6_Witness ==
    /\ Called("UnmarshalJSON")
    /\ res.recv = Some(Some(1))
    /\ res.out.err = "nil"
    /\ o = None(ZeroT)

\* C7: ToPointer returns nil for None and, for Some(v), the address of a
\* cell that was not allocated before and holds v; a write through a pointer
\* the client holds leaves the Option alone, so Unwrap() still returns v.
C7_NoAlias ==
    /\ Called("ToPointer") =>
         /\ o = res.recv
         /\ IF ~res.recv.ok
            THEN res.out.ptr = NilPtr /\ heap = res.args.mem
            ELSE /\ res.out.ptr \in Addrs \ DOMAIN res.args.mem
                 /\ heap[res.out.ptr] = res.recv.value
                 /\ \A a \in DOMAIN res.args.mem : heap[a] = res.args.mem[a]
    /\ Called("WritePtr") =>
         /\ o = res.recv
         /\ res.recv.ok =>
              ~res.out.unwrap.panicked /\ res.out.unwrap.ret = res.recv.value

C7_Witness ==
    /\ Called("WritePtr")
    /\ res.recv.ok
    /\ res.args.v # res.recv.value
    /\ heap[res.args.p] = res.args.v
    /\ Cardinality(DOMAIN heap) = 2

\* C8: on Some(v), Unwrap and Expect return v; on None both panic, Unwrap
\* with the package's prefix and "Unwrap called on None", Expect(msg) with
\* the package's prefix and msg.
C8_UnwrapExpect ==
    /\ Called("Unwrap") =>
         IF res.recv.ok
         THEN ~res.out.panicked /\ res.out.ret = res.recv.value
         ELSE res.out.panicked /\ res.out.msg = "gopt: " \o "Unwrap called on None"
    /\ Called("Expect") =>
         IF res.recv.ok
         THEN ~res.out.panicked /\ res.out.ret = res.recv.value
         ELSE res.out.panicked /\ res.out.msg = "gopt: " \o res.args.msg

C8_Witness ==
    \/ Called("Expect") /\ ~res.recv.ok /\ res.args.msg = "required"
         /\ res.out.panicked
    \/ Called("Unwrap") /\ res.recv = Some(ZeroT) /\ ~res.out.panicked

\* The Option that holds v iff p.
Present(v, p) == [value |-> IF p THEN v ELSE ZeroT, ok |-> p]

\* C9: FromTuple(v, p) and Cond(p, v) both return Some(v) if p and None
\* otherwise, whatever v is; Try(v, err) is Some(v) iff err is nil;
\* FromPtr(p) is None iff p is nil and otherwise Some of what p points to.
C9_FlagDecides ==
    /\ Called("FromTuple") => res.out.ret = Present(res.args.v, res.args.ok)
    /\ Called("Cond") => res.out.ret = Present(res.args.v, res.args.ok)
    /\ Called("Try") => res.out.ret = Present(res.args.v, res.args.err = "nil")
    /\ Called("FromPtr") =>
         IF res.args.p = NilPtr THEN res.out.ret = Present(ZeroT, FALSE)
         ELSE res.out.ret = Present(res.args.mem[res.args.p], TRUE)

C9_Witness ==
    \/ Called("FromTuple") /\ res.args.v = ZeroT /\ res.args.ok
         /\ res.out.ret = Some(ZeroT)
    \/ Called("FromPtr") /\ res.args.p # NilPtr /\ res.out.ret.ok

\* C10: on Some, UnwrapOrElse, OrElse and MapOrElse do not invoke the
\* fallback and return v, the Option, fn(v); on None they invoke the
\* fallback once and return its result.  UnwrapOr, Or and MapOr return what
\* the lazy form returns for a fallback function returning their argument.
C10_LazyFallback ==
    /\ Called("UnwrapOrElse") =>
         IF res.recv.ok
         THEN res.out.ret = res.recv.value /\ res.out.log = <<>>
         ELSE res.out.ret = res.args.fn /\ res.out.log = <<[fn |-> "fn"]>>
    /\ Called("OrElse") =>
         IF res.recv.ok
         THEN res.out.ret = res.recv /\ res.out.log = <<>>
         ELSE res.out.ret = res.args.fn /\ res.out.log = <<[fn |-> "fn"]>>
    /\ Called("MapOrElse") =>
         IF res.recv.ok
         THEN /\ res.out.ret = res.args.fn[res.recv.value]
              /\ \A i \in 1 .. Len(res.out.log) : res.out.log[i].fn # "defaultFn"
         ELSE /\ res.out.ret = res.args.defaultFn
              /\ res.out.log = <<[fn |-> "defaultFn"]>>
    /\ Called("UnwrapOr") =>
         res.out.ret = UnwrapOrElse(res.recv, res.args.d).ret
    /\ Called("Or") =>
         res.out.ret = OrElse(res.recv, res.args.other).ret
    /\ Called("MapOr") =>
         res.out.ret = MapOrElse(res.recv, res.args.d, res.args.fn).ret

C10_Witness ==
    \/ Called("OrElse") /\ res.recv.ok /\ res.args.fn # res.recv
         /\ res.out.log = <<>>
    \/ Called("MapOrElse") /\ ~res.recv.ok /\ Len(res.out.log) = 1

\* C11: AndThen(Some(v), f) is f(v), also when f(v) is None, and f is
\* invoked once, with v; AndThen(None, f) is None and f is not invoked.
C11_MonadLaw ==
    Called("AndThen") =>
        IF res.recv.ok
        THEN /\ res.out.ret = res.args.fn[res.recv.value]
             /\ res.out.log = <<[fn |-> "fn", arg |-> res.recv.value]>>
        ELSE /\ res.out.ret = None(ZeroInt)
             /\ res.out.log = <<>>

C11_Witness ==
    /\ Called("AndThen")
    /\ res.recv = Some(Some(1))
    /\ res.args.fn[Some(1)] = None(ZeroInt)
    /\ res.out.ret = None(ZeroInt)
    /\ Len(res.out.log) = 1

\* g after f
Compose(g, f) == [v \in DOMAIN f |-> g[f[v]]]

\* C12: Map(o, identity) is o; Map(Map(o, f), g) is Map(o, g after f);
\* Map(Some(v), f) is Some(f(v)) after one call of f, and Map(None, f) is
\* None without a call of f.
C12_FunctorLaws ==
    /\ Called("MapIdentity") => res.out.ret = res.recv
    /\ Called("MapMap") =>
         /\ res.out.ret = Map(res.recv, Compose(res.args.g, res.args.f), ZeroInt).ret
         /\ res.out.ret =
              IF res.recv.ok
              THEN Some(res.args.g[res.args.f[res.recv.value]])
              ELSE None(ZeroInt)
    /\ Called("Map") =>
         IF res.recv.ok
         THEN /\ res.out.ret = Some(res.args.fn[res.recv.value])
              /\ res.out.log = <<[fn |-> "fn", arg |-> res.recv.value]>>
         ELSE /\ res.out.ret = None(ZeroInt)
              /\ res.out.log = <<>>

C12_Witness ==
    /\ Called("MapMap")
    /\ res.recv = Some(Some(1))
    /\ res.args.f[Some(1)] = 1
    /\ res.args.g[1] = 0
    /\ res.out.ret = Some(0)

\* C13: for the method and the package function alike, Filter(Some(v), p)
\* evaluates p once, on v, and is Some(v) if p(v) and None otherwise;
\* Filter(None, p) is None and p is not evaluated.
C13_Filter ==
    Called("Filter") \/ Called("PkgFilter") =>
        IF res.recv.ok
        THEN /\ res.out.log = <<[fn |-> "pred", arg |-> res.recv.value]>>
             /\ res.out.ret = IF res.args.pred[res.recv.value]
                               THEN Some(res.recv.value) ELSE None(ZeroT)
        ELSE /\ res.out.ret = None(ZeroT)
             /\ res.out.log = <<>>

C13_Witness ==
    /\ Called("PkgFilter")
    /\ res.recv = Some(Some(1))
    /\ ~res.args.pred[Some(1)]
    /\ res.args.pred[ZeroT]
    /\ res.out.ret = None(ZeroT)

\* C14: Flatten(Some(Some(v))) is Some(v), Flatten(Some(None)) and
\* Flatten(None) are None: the result is Some iff the outer and the inner
\* Option are both Some.
C14_Flatten ==
    Called("Flatten") =>
        /\ res.out.ret = IF res.recv.ok /\ res.recv.value.ok
                          THEN Some(res.recv.value.value) ELSE None(ZeroInt)
        /\ res.out.ret.ok <=> (res.recv.ok /\ res.recv.value.ok)

C14_Witness ==
    \/ Called("Flatten") /\ res.recv = Some(None(ZeroInt))
         /\ res.out.ret = None(ZeroInt)
    \/ Called("Flatten") /\ res.recv = Some(Some(1)) /\ res.out.ret = Some(1)

\* C15: Equals(a, b) is true iff a and b are both None or both Some with
\* values that T's == finds equal; Equals(b, a) is the same; a Some never
\* equals a None; Equals(Some(NaN), Some(NaN)) is false.
C15_Equals ==
    /\ Called("Equals") =>
         /\ res.out.ret <=>
              \/ ~res.recv.ok /\ ~res.args.b.ok
              \/ res.recv.ok /\ res.args.b.ok /\ res.recv.value = res.args.b.value
         /\ res.out.swapped = res.out.ret
         /\ res.recv.ok # res.args.b.ok => ~res.out.ret
    /\ Called("EqualsFloat") =>
         /\ res.out.ret <=>
              \/ ~res.args.a.ok /\ ~res.args.b.ok
              \/ /\ res.args.a.ok /\ res.args.b.ok
                 /\ res.args.a.value = res.args.b.value
                 /\ res.args.a.value # NaN
         /\ res.out.swapped = res.out.ret
         /\ res.args.a.ok # res.args.b.ok => ~res.out.ret
         /\ res.args.a = Some(NaN) /\ res.args.b = Some(NaN) => ~res.out.ret

C15_Witness ==
    /\ Called("EqualsFloat")
    /\ res.args.a = Some(NaN)
    /\ res.args.b = Some(NaN)
    /\ ~res.out.ret

\* C16: Zip(a, b) is Some iff a and b are both Some, and then holds the
\* Pair whose First is a's value and whose Second is b's value; if either
\* is None the result is None.
C16_Zip ==
    Called("Zip") =>
        /\ res.out.ret.ok <=> (res.recv.ok /\ res.args.b.ok)
        /\ IF res.recv.ok /\ res.args.b.ok
           THEN /\ res.out.ret.value.First = res.recv.value
                /\ res.out.ret.value.Second = res.args.b.value
           ELSE res.out.ret = None([First |-> ZeroT, Second |-> ZeroT])

C16_Witness ==
    /\ Called("Zip")
    /\ res.recv = Some(Some(1))
    /\ res.args.b = Some(ZeroT)
    /\ res.out.ret = Some([First |-> Some(1), Second |-> ZeroT])

\* C17: Match(o, onSome, onNone) makes one call in all: onSome(v) if o is
\* Some(v), onNone() if o is None, and returns what that call returned; the
\* other function is not called.
C17_Match ==
    Called("Match") =>
        /\ Len(res.out.log) = 1
        /\ IF res.recv.ok
           THEN /\ res.out.log[1] = [fn |-> "onSome", arg |-> res.recv.value]
                /\ res.out.ret = res.args.onSome[res.recv.value]
           ELSE /\ res.out.log[1] = [fn |-> "onNone"]
                /\ res.out.ret = res.args.onNone

C17_Witness ==
    /\ Called("Match")
    /\ res.recv = Some(Some(1))
    /\ res.args.onSome[Some(1)] = 1
    /\ res.args.onNone = 0
    /\ res.out.ret = 1

\* C18: for the method and the package function alike, Tap(o, fn) calls fn
\* once, with v, if o is Some(v) and not at all if o is None, and returns an
\* Option with o's flag and value.
C18_Tap ==
    Called("Tap") \/ Called("PkgTap") =>
        /\ res.out.ret = res.recv
        /\ o = res.recv
        /\ res.out.log = IF res.recv.ok
                         THEN <<[fn |-> "fn", arg |-> res.recv.value]>>
                         ELSE <<>>

C18_Witness ==
    /\ Called("PkgTap")
    /\ res.recv = Some(Some(1))
    /\ res.out.ret = Some(Some(1))
    /\ Len(res.out.log) = 1

\* C19: after o.UnmarshalJSON(data) the receiver is the Option that
\* UnmarshalOption(data, decode) returns for the same decoder, whatever the
\* receiver held before: None for empty or null input, else Some of the
\* value decoded into a zero T.
C19_HookMatchesUnmarshalOption ==
    /\ Called("UnmarshalJSON") =>
         o = UnmarshalOption(res.args.data, "Option[int]", ZeroT).ret
    /\ Called("UnmarshalJSONArray") =>
         res.out.o = UnmarshalOption(res.args.data, "[1]int", ZeroArray).ret

====
